---- MODULE Spec2Model ----
(***************************************************************************)
(* Duplicate-issue detection (src/duplicate-detection.ts) and the error    *)
(* handler with its operation runner (src/utils/error-handler.ts).         *)
(*                                                                         *)
(* Similarity values are carried as hundredths (60 is 0.6, 100 is 1.0).    *)
(* A JavaScript number that is not a number is carried as the record NaN.  *)
(* A Map entry that is absent and one that holds 0 are both the counter    *)
(* value 0: the code reads every counter as `get(context) || 0`.           *)
(***************************************************************************)
EXTENDS Integers, Sequences, FiniteSets, TLC

VARIABLES
    pc,             \* position of the checkForDuplicates call
    searchResults,  \* const searchResults (duplicate-detection.ts:46)
    requests,       \* requests the tracker gateway received during the call
    batchStart,     \* loop variable i of analyzeIssueSimilarity
    results,        \* const results of analyzeIssueSimilarity
    analysisResults,\* const analysisResults (duplicate-detection.ts:58)
    replies,        \* what the generation service answered to each batch
    scorer,         \* what the scorer did during the call
    analysis,       \* the DuplicateAnalysis the call returned
    caught,         \* whether the catch handler of the call was entered
    retryAttempts,  \* ErrorHandler.retryAttempts of every handler instance
    scIn,           \* input of one analyzeIssueSimilarity application
    scOut,          \* its output
    seIn,           \* input of one searchSimilarIssues application
    seOut,          \* its output
    rpc,            \* position of the makeRequest call
    run,            \* arguments and locals of the makeRequest call
    lastThrown,     \* the error the most recent invocation of the operation raised
    outcome,        \* how the makeRequest call ended
    hlast,          \* the most recent call on the agent's ErrorHandler
    htrack,         \* the failures handled since the most recent resetRetryCount
    clIn,           \* input of one normalizeError application
    clOut,          \* its output
    recIn,          \* input of one generateRecommendations application
    recOut,         \* its output
    fpc,            \* position of the createIssueFlowWithDuplicateDetection call
    flow            \* locals of that call and what it did so far

vars == <<pc, searchResults, requests, batchStart, results, analysisResults,
          replies, scorer, analysis, caught, retryAttempts, scIn, scOut, seIn,
          seOut, rpc, run, lastThrown, outcome, hlast, htrack, clIn, clOut,
          recIn, recOut, fpc, flow>>

dupVars == <<pc, searchResults, requests, batchStart, results, analysisResults,
             replies, scorer, analysis, caught>>
scorerVars == <<scIn, scOut, seIn, seOut>>
runnerVars == <<rpc, run, lastThrown, outcome>>
handlerVars == <<hlast, htrack>>
pureVars == <<clIn, clOut, recIn, recOut>>
flowVars == <<fpc, flow>>

----------------------------------------------------------------------------
(* Bounds of the model *)

MaxCandidates == 7
MaxScorerCandidates == 2
MaxReplyLen == 2
MaxBudget == 4
MaxFound == 2
MaxMatches == 3
MaxFlowMatches == 2

(* Program constants *)

batchSize == 5
maxRetries == 3
SignificantThreshold == 60
HighThreshold == 80
FallbackSimilarity == 10

----------------------------------------------------------------------------
(* JavaScript values *)

Num(v) == [nan |-> FALSE, v |-> v]
NaN == [nan |-> TRUE, v |-> 0]

Missing == [t |-> "missing", v |-> 0]
Number(v) == [t |-> "num", v |-> v]
Text == [t |-> "text", v |-> 0]

\* analysis.similarity || 0
OrZero(raw) ==
    IF raw.t = "missing" \/ (raw.t = "num" /\ raw.v = 0) THEN Num(0)
    ELSE IF raw.t = "text" THEN NaN
    ELSE Num(raw.v)

MathMax(a, b) ==
    IF a.nan \/ b.nan THEN NaN ELSE IF a.v >= b.v THEN a ELSE b

MathMin(a, b) ==
    IF a.nan \/ b.nan THEN NaN ELSE IF a.v <= b.v THEN a ELSE b

\* a > b on JavaScript numbers: false when either is not a number
Greater(a, b) == ~a.nan /\ ~b.nan /\ a.v > b.v

Ret(v) == [threw |-> FALSE, value |-> v]
Throw == [threw |-> TRUE, value |-> <<>>]

Min2(a, b) == IF a <= b THEN a ELSE b

\* Array.prototype.slice(from, to), 0-based and end-exclusive
Slice(s, from, to) == SubSeq(s, from + 1, Min2(to, Len(s)))

----------------------------------------------------------------------------
(* Similarity scorer *)

Candidate(k, ok) == [key |-> k, wellFormed |-> ok]

\* candidates 1..n of a search result; the one at position bad (if any)
\* lacks the fields the scorer reads
Candidates(n, bad) == [j \in 1..n |-> Candidate(j, j # bad)]

Entry(idx, raw, hasReason) ==
    [isNull |-> FALSE, issueIndex |-> idx, similarity |-> raw,
     hasReason |-> hasReason]
NullEntry ==
    [isNull |-> TRUE, issueIndex |-> 0, similarity |-> Missing,
     hasReason |-> FALSE]

Reply(kind, entries) == [kind |-> kind, entries |-> entries]

SimilarIssue(issue, sim, reason) ==
    [key |-> issue.key, similarity |-> sim, reason |-> reason]

createFallbackSimilarity(issue) ==
    IF issue.wellFormed
    THEN Ret(SimilarIssue(issue, Num(FallbackSimilarity),
                          "Unable to perform detailed analysis"))
    ELSE Throw

\* issueBatch.map(issue => this.createFallbackSimilarity(issue))
FallbackBatch(issueBatch) ==
    IF \E j \in 1..Len(issueBatch) : createFallbackSimilarity(issueBatch[j]).threw
    THEN Throw
    ELSE Ret([j \in 1..Len(issueBatch) |->
                 createFallbackSimilarity(issueBatch[j]).value])

\* analysisResults.find(a => a.issueIndex === index + 1)
RECURSIVE Find(_, _)
Find(entries, idx) ==
    IF entries = <<>> THEN [threw |-> FALSE, found |-> FALSE, entry |-> NullEntry]
    ELSE IF Head(entries).isNull
         THEN [threw |-> TRUE, found |-> FALSE, entry |-> NullEntry]
    ELSE IF Head(entries).issueIndex = idx
         THEN [threw |-> FALSE, found |-> TRUE, entry |-> Head(entries)]
    ELSE Find(Tail(entries), idx)

DefaultAnalysisMutant(f) ==
    IF f.found THEN f.entry
    ELSE Entry(0, Number(0), TRUE)

\* ... || { similarity: 0.1, reason: 'Analysis failed' }
DefaultAnalysis(f) ==
    IF f.found THEN f.entry
    ELSE Entry(0, Number(FallbackSimilarity), TRUE)

ReasonOf(f) ==
    IF ~f.found THEN "Analysis failed"
    ELSE IF f.entry.hasReason THEN "service reason"
    ELSE "AI analysis completed"

ClampMutant(raw) == OrZero(raw)

\* Math.min(Math.max(analysis.similarity || 0, 0), 1)
Clamp(raw) == MathMin(MathMax(OrZero(raw), Num(0)), Num(100))

\* the callback of issueBatch.map over a parsed reply
AnalyzeOne(issue, index, entries) ==
    LET f == Find(entries, index)
    IN  IF f.threw \/ ~issue.wellFormed THEN Throw
        ELSE Ret(SimilarIssue(issue, Clamp(DefaultAnalysis(f).similarity),
                              ReasonOf(f)))

ParsedBatch(issueBatch, entries) ==
    IF \E j \in 1..Len(issueBatch) : AnalyzeOne(issueBatch[j], j, entries).threw
    THEN Throw
    ELSE Ret([j \in 1..Len(issueBatch) |->
                 AnalyzeOne(issueBatch[j], j, entries).value])

\* the generation service is called only once the prompt has been built,
\* and the prompt reads the fields of every candidate of the batch
ServiceCalled(issueBatch) ==
    \A j \in 1..Len(issueBatch) : issueBatch[j].wellFormed

analyzeBatchMutant(issueBatch, reply) ==
    IF ~ServiceCalled(issueBatch) THEN FallbackBatch(issueBatch)
    ELSE IF reply.kind = "list" /\ ~ParsedBatch(issueBatch, reply.entries).threw
         THEN ParsedBatch(issueBatch, reply.entries)
    ELSE Ret([j \in 1..Len(issueBatch) |->
                 SimilarIssue(issueBatch[j], Num(FallbackSimilarity),
                              "Analysis failed")])

analyzeBatch(issueBatch, reply) ==
    IF ~ServiceCalled(issueBatch) THEN FallbackBatch(issueBatch)
    ELSE IF reply.kind \in {"throw", "empty", "unparsable", "nonlist"}
         THEN FallbackBatch(issueBatch)
    ELSE LET parsed == ParsedBatch(issueBatch, reply.entries)
         IN  IF parsed.threw THEN FallbackBatch(issueBatch) ELSE parsed

\* result => result.similarity > 0
Positive(r) == Greater(r.similarity, Num(0))

\* where a stable sort by (a, b) => b.similarity - a.similarity puts x
\* among the already ordered earlier elements: behind every element that
\* is not smaller
InsertAtMutant(sorted, x) ==
    Cardinality({k \in 1..Len(sorted) :
                    sorted[k].similarity.v > x.similarity.v})

InsertAt(sorted, x) ==
    Cardinality({k \in 1..Len(sorted) :
                    sorted[k].similarity.v >= x.similarity.v})

RECURSIVE SortBySimilarity(_)
SortBySimilarity(s) ==
    IF s = <<>> THEN <<>>
    ELSE LET sorted == SortBySimilarity(SubSeq(s, 1, Len(s) - 1))
             x == s[Len(s)]
             k == InsertAt(sorted, x)
         IN  SubSeq(sorted, 1, k) \o <<x>> \o SubSeq(sorted, k + 1, Len(sorted))

\* results.filter(result => result.similarity > 0).sort(...)
FilterAndSort(all) == SortBySimilarity(SelectSeq(all, Positive))

\* const significantMatches = analysisResults.filter(r => r.similarity > 0.6)
SignificantMutant(r) == r.similarity.v >= SignificantThreshold

Significant(r) == Greater(r.similarity, Num(SignificantThreshold))

HighMutant(r) == ~r.similarity.nan /\ r.similarity.v >= HighThreshold

High(r) == Greater(r.similarity, Num(HighThreshold))
Medium(r) ==
    /\ Greater(r.similarity, Num(SignificantThreshold))
    /\ ~r.similarity.nan /\ r.similarity.v <= HighThreshold

\* the recommendation texts are the source's without their leading symbol
generateRecommendations(similarIssues) ==
    IF Len(similarIssues) = 0
    THEN <<"No similar issues found. Safe to proceed.">>
    ELSE (IF Len(SelectSeq(similarIssues, High)) > 0
          THEN <<"High similarity detected! Consider these actions:",
                 "Check if the existing issue can be updated instead",
                 "Add a comment to the existing issue",
                 "Create a subtask if this is a specific aspect">>
          ELSE <<>>)
         \o
         (IF Len(SelectSeq(similarIssues, Medium)) > 0
          THEN <<"Related issues found. Consider:",
                 "Linking issues if they are related",
                 "Adding references in the description",
                 "Ensuring the new issue adds unique value">>
          ELSE <<>>)
         \o <<"Review the similar issues below before proceeding.">>

Verdict(has, issues, recs) ==
    [hasPotentialDuplicates |-> has, similarIssues |-> issues,
     recommendations |-> recs]

\* the value checkForDuplicates returns when the search found nothing
NoCandidatesVerdict ==
    Verdict(FALSE, <<>>,
            <<"No similar issues found. Safe to proceed with creation.">>)

\* the value checkForDuplicates returns from its catch handler
SafeFallbackVerdict ==
    Verdict(FALSE, <<>>,
            <<"Unable to check for duplicates. Proceed with caution.">>)

\* the filter on 0.6 replaced by the scorer's filter on 0
ScoredVerdictMutant(scored) ==
    LET significantMatches == SelectSeq(scored, Positive)
    IN  Verdict(Len(significantMatches) > 0, significantMatches,
                generateRecommendations(significantMatches))

\* steps 3 and 4 of checkForDuplicates
ScoredVerdict(scored) ==
    LET significantMatches == SelectSeq(scored, Significant)
    IN  Verdict(Len(significantMatches) > 0, significantMatches,
                generateRecommendations(significantMatches))

NoVerdict == Verdict(FALSE, <<>>, <<>>)

----------------------------------------------------------------------------
(* Error classifier and retry controller *)

Handlers == {"duplicate-detection service", "agent", "runner"}
Contexts == {"duplicate-detection", "fetch-projects", "create-issue",
             "create-issue-flow", "default"}

\* what the lower-cased message of an error may contain: "timeout" stands
\* for econnrefused, enotfound and timeout, "401" for 401, unauthorized and
\* invalid api key, "400" for 400, 403 and 404, "openai" for openai and gpt
Indicators == {"timeout", "401", "400", "openai"}

\* a thrown Error whose lower-cased message contains the indicators ind
PlainError(ind, seq) ==
    [app |-> FALSE, type |-> "Error", isRetryable |-> FALSE, ind |-> ind,
     seq |-> seq]

\* statusCode 0 stands for a status code that was not given
AppError(type, isRetryable, ind, seq) ==
    [app |-> TRUE, type |-> type, isRetryable |-> isRetryable, ind |-> ind,
     seq |-> seq, statusCode |-> 0]

createNetworkError(ind) == AppError("NETWORK_ERROR", TRUE, ind, 0)
createAuthError(ind) == AppError("AUTHENTICATION_ERROR", FALSE, ind, 0)
createValidationError(ind) == AppError("VALIDATION_ERROR", FALSE, ind, 0)
createJiraError(ind, statusCode) ==
    [AppError("JIRA_API_ERROR", TRUE, ind, 0) EXCEPT !.statusCode = statusCode]
createOpenAIError(ind) == AppError("OPENAI_ERROR", TRUE, ind, 0)

\* the authentication test moved before the network test
normalizeErrorSwapped(error) ==
    IF error.app THEN error
    ELSE IF "401" \in error.ind
         THEN AppError("AUTHENTICATION_ERROR", FALSE, {}, error.seq)
    ELSE IF "timeout" \in error.ind
         THEN AppError("NETWORK_ERROR", TRUE, {}, error.seq)
    ELSE IF "400" \in error.ind
         THEN AppError("JIRA_API_ERROR", TRUE, {}, error.seq)
    ELSE IF "openai" \in error.ind
         THEN AppError("OPENAI_ERROR", TRUE, {"openai"}, error.seq)
    ELSE AppError("UNKNOWN_ERROR", TRUE, error.ind, error.seq)

\* the instanceof test dropped
normalizeErrorReclassifies(error) ==
    IF "timeout" \in error.ind
    THEN AppError("NETWORK_ERROR", TRUE, {}, error.seq)
    ELSE IF "401" \in error.ind
         THEN AppError("AUTHENTICATION_ERROR", FALSE, {}, error.seq)
    ELSE IF "400" \in error.ind
         THEN AppError("JIRA_API_ERROR", TRUE, {}, error.seq)
    ELSE IF "openai" \in error.ind
         THEN AppError("OPENAI_ERROR", TRUE, {"openai"}, error.seq)
    ELSE AppError("UNKNOWN_ERROR", TRUE, error.ind, error.seq)

normalizeError(error) ==
    IF error.app THEN error
    ELSE IF "timeout" \in error.ind
         THEN AppError("NETWORK_ERROR", TRUE, {}, error.seq)
    ELSE IF "401" \in error.ind
         THEN AppError("AUTHENTICATION_ERROR", FALSE, {}, error.seq)
    ELSE IF "400" \in error.ind
         THEN AppError("JIRA_API_ERROR", TRUE, {}, error.seq)
    ELSE IF "openai" \in error.ind
         THEN AppError("OPENAI_ERROR", TRUE, {"openai"}, error.seq)
    ELSE AppError("UNKNOWN_ERROR", TRUE, error.ind, error.seq)

Answers == {"y", "Yes", "n", ""}

\* response.toLowerCase().startsWith('y')
Confirms(answer) == answer \in {"y", "Yes"}

shouldRetryMutant(attempts, context) == attempts[context] <= maxRetries

shouldRetry(attempts, context) == attempts[context] < maxRetries

Pow2(n) == IF n = 0 THEN 1 ELSE IF n = 1 THEN 2 ELSE IF n = 2 THEN 4 ELSE 8

\* a delay that grows by one second with each attempt
retryDelayMutant(attemptNumber) ==
    IF 1000 * (attemptNumber + 1) <= 5000 THEN 1000 * (attemptNumber + 1)
    ELSE 5000

\* the delay retryDelay computes, in milliseconds
retryDelay(attemptNumber) ==
    IF 1000 * Pow2(attemptNumber) <= 5000 THEN 1000 * Pow2(attemptNumber)
    ELSE 5000

Handled(attempts, retry, prompted, delay) ==
    [attempts |-> attempts, shouldRetry |-> retry, prompted |-> prompted,
     delay |-> delay]

\* the counter raised by two
promptForRetryMutant(attempts, context, answer) ==
    LET n == attempts[context]
        counted == [attempts EXCEPT ![context] = n + 2]
    IN  IF Confirms(answer)
        THEN Handled(counted, TRUE, TRUE, retryDelay(n))
        ELSE Handled([counted EXCEPT ![context] = 0], FALSE, TRUE, 0)

promptForRetry(attempts, context, answer) ==
    LET n == attempts[context]
        counted == [attempts EXCEPT ![context] = n + 1]
    IN  IF Confirms(answer)
        THEN Handled(counted, TRUE, TRUE, retryDelay(n))
        ELSE Handled([counted EXCEPT ![context] = 0], FALSE, TRUE, 0)

\* the isRetryable test dropped
handleErrorMutant(attempts, error, context, answer) ==
    IF shouldRetry(attempts, context)
    THEN promptForRetry(attempts, context, answer)
    ELSE Handled(attempts, FALSE, FALSE, 0)

handleError(attempts, error, context, answer) ==
    IF normalizeError(error).isRetryable /\ shouldRetry(attempts, context)
    THEN promptForRetry(attempts, context, answer)
    ELSE Handled(attempts, FALSE, FALSE, 0)

\* the attempt number the retry prompt shows: Attempt ${attempts + 1}/3
PromptLabel(attempts, context) == attempts[context] + 1

resetRetryCountMutant(attempts, context) == [c \in DOMAIN attempts |-> 0]

resetRetryCount(attempts, context) == [attempts EXCEPT ![context] = 0]

NoAttempts == [h \in Handlers |-> [c \in Contexts |-> 0]]

----------------------------------------------------------------------------
(* Candidate search *)

\* a word of len characters: upper says whether it has an upper-case letter
Word(len, cls) == [len |-> len, cls |-> cls, upper |-> FALSE]
Capital(len) == [len |-> len, cls |-> "alpha", upper |-> TRUE]
EmptyWord == Word(0, "alpha")

ToLowerCase(words) == [k \in 1..Len(words) |-> [words[k] EXCEPT !.upper = FALSE]]

\* (title + ' ' + description).toLowerCase().split(/\s+/)
SplitText(title, description) ==
    ToLowerCase((IF title = <<>> THEN <<EmptyWord>> ELSE title)
                \o (IF description = <<>> THEN <<EmptyWord>> ELSE description))

\* the keyword 'issue'
IssueWord == Word(5, "alpha")

LongWordMutant(w) == w.len >= 3

LongWord(w) == w.len > 3
NotNumber(w) == w.cls # "digits"

extractKeywordsFallback(title, description) ==
    LET words == Slice(SelectSeq(SelectSeq(SplitText(title, description),
                                           LongWord), NotNumber), 0, 5)
    IN  IF Len(words) > 0 THEN words ELSE <<IssueWord>>

KeywordReply(kind, keywords) == [kind |-> kind, keywords |-> keywords]

extractKeywords(title, description, reply) ==
    IF reply.kind \in {"throw", "empty", "unparsable", "nonarray"}
    THEN extractKeywordsFallback(title, description)
    ELSE Slice(reply.keywords, 0, 5)

GatewayOutcome(kind, issues) == [kind |-> kind, issues |-> issues]
NoRequest == GatewayOutcome("none", <<>>)

Request(dialect, terms) == [dialect |-> dialect, terms |-> terms]

Searched(r, reqs) == [threw |-> r.threw, value |-> r.value, requests |-> reqs]

\* the body of a search request once fetch has been awaited
ReadIssues(out) ==
    IF out.kind \in {"neterr", "badbody", "nullbody"} THEN Throw
    ELSE IF out.kind = "noissues" THEN Ret(<<>>)
    ELSE Ret(out.issues)

fallbackSearchMutant(title, out) ==
    Searched(IF out.kind = "notok" THEN Ret(<<>>) ELSE ReadIssues(out),
             <<Request("query", Len(Slice(title, 0, 3)))>>)

fallbackSearch(title, out) ==
    LET body == IF out.kind = "notok" THEN Ret(<<>>) ELSE ReadIssues(out)
    IN  Searched(IF body.threw THEN Ret(<<>>) ELSE body,
                 <<Request("query", Len(Slice(title, 0, 3)))>>)

\* the `if (!response.ok)` branch dropped
searchSimilarIssuesMutant(title, description, kwReply, primary, fallback) ==
    LET keywords == extractKeywords(title, description, kwReply)
        first == <<Request("jql", Len(keywords))>>
        body == ReadIssues(primary)
        second == fallbackSearch(title, fallback)
    IN  IF body.threw
        THEN Searched(second, first \o second.requests)
        ELSE Searched(body, first)

searchSimilarIssues(title, description, kwReply, primary, fallback) ==
    LET keywords == extractKeywords(title, description, kwReply)
        first == <<Request("jql", Len(keywords))>>
        body == ReadIssues(primary)
        second == fallbackSearch(title, fallback)
    IN  IF primary.kind = "notok" \/ body.threw
        THEN Searched(second, first \o second.requests)
        ELSE Searched(body, first)

----------------------------------------------------------------------------
(* Inputs *)

FailureKinds == {"throw", "empty", "unparsable", "nonlist"}

Absent == [t |-> "absent", v |-> 0]

\* what the generation service may say about one candidate of a batch in
\* the duplicate check
Outcomes == {Absent, Number(60), Number(61)}

Present(p) == p.raw.t # "absent"

\* the reply that lists, in candidate order, the candidates the service
\* gave a score
ListReply(given) ==
    LET all == [j \in 1..Len(given) |-> [idx |-> j, raw |-> given[j]]]
        kept == SelectSeq(all, Present)
    IN  Reply("list", [k \in 1..Len(kept) |->
                          Entry(kept[k].idx, kept[k].raw, TRUE)])

BatchReplies(len) ==
    {Reply(k, <<>>) : k \in FailureKinds}
    \cup {ListReply(given) : given \in [1..len -> Outcomes]}

GatewayOutcomes ==
    {GatewayOutcome(k, <<>>) :
        k \in {"neterr", "notok", "badbody", "nullbody", "noissues"}}
    \cup UNION {{GatewayOutcome("issues", Candidates(n, bad)) : bad \in 0..n} :
                   n \in 0..MaxCandidates}

PrimaryFailed(out) == out.kind \in {"neterr", "notok", "badbody", "nullbody"}

Issue(title, description) == [title |-> title, description |-> description]

\* the title "Login fails!!!" with an empty description; a word is alpha
\* when it holds a letter, digits when it is a number, punct otherwise
LoginFails == Issue(<<Capital(5), Word(8, "alpha")>>, <<>>)

KeywordFailures ==
    {KeywordReply(k, <<>>) : k \in {"throw", "empty", "unparsable", "nonarray"}}

\* the TypeError a candidate record without its fields raises
TypeError == PlainError({}, 0)

NoScorer == [invoked |-> FALSE, calls |-> 0, delays |-> 0]

----------------------------------------------------------------------------
(* checkForDuplicates *)

InitDup ==
    /\ pc = "idle"
    /\ searchResults = <<>>
    /\ requests = <<>>
    /\ batchStart = 0
    /\ results = <<>>
    /\ analysisResults = <<>>
    /\ replies = <<>>
    /\ scorer = NoScorer
    /\ analysis = NoVerdict
    /\ caught = FALSE

NoResultsMutant(found) == Len(found) < 0

\* searchResults.length === 0
NoResults(found) == Len(found) = 0

\* checkForDuplicates up to the first suspension of the scorer
Search ==
    /\ pc = "idle"
    /\ \E kwReply \in KeywordFailures, primary \in GatewayOutcomes :
       \E fallback \in (IF PrimaryFailed(primary) THEN GatewayOutcomes
                        ELSE {NoRequest}) :
          LET s == searchSimilarIssues(LoginFails.title, LoginFails.description,
                                       kwReply, primary, fallback)
          IN  /\ requests' = s.requests
              /\ IF s.threw
                 THEN /\ pc' = "catch"
                      /\ UNCHANGED <<searchResults, scorer, analysis>>
                 ELSE /\ searchResults' = s.value
                      /\ IF NoResults(s.value)
                         THEN /\ pc' = "returned"
                              /\ analysis' = NoCandidatesVerdict
                              /\ UNCHANGED scorer
                         ELSE /\ scorer' = [scorer EXCEPT !.invoked = TRUE]
                              /\ IF 0 < Len(s.value)
                                 THEN pc' = "scoring" /\ UNCHANGED analysis
                                 ELSE /\ pc' = "returned"
                                      /\ analysis' = ScoredVerdict(FilterAndSort(<<>>))
    /\ UNCHANGED <<batchStart, results, analysisResults, replies, caught,
                   retryAttempts, scorerVars, runnerVars,
                   handlerVars, pureVars, flowVars>>

\* one iteration of the loop of analyzeIssueSimilarity up to its delay, and
\* after the last batch the rest of checkForDuplicates
\* i + batchSize < existingIssues.length
MoreBatchesMutant(i, length) == i + batchSize <= length

MoreBatches(i, length) == i + batchSize < length

ScoreBatch ==
    /\ pc = "scoring"
    /\ LET batch == Slice(searchResults, batchStart, batchStart + batchSize)
       IN  \E reply \in (IF ServiceCalled(batch) THEN BatchReplies(Len(batch))
                         ELSE {Reply("none", <<>>)}) :
              LET batchResults == analyzeBatch(batch, reply)
              IN  IF batchResults.threw
                  THEN /\ pc' = "catch"
                       /\ UNCHANGED <<results, analysisResults, replies,
                                      scorer, analysis>>
                  ELSE /\ results' = results \o batchResults.value
                       /\ replies' = Append(replies, reply)
                       /\ scorer' = [scorer EXCEPT !.calls = @ + 1]
                       /\ IF MoreBatches(batchStart, Len(searchResults))
                          THEN /\ pc' = "delay"
                               /\ UNCHANGED <<analysisResults, analysis>>
                          ELSE /\ pc' = "returned"
                               /\ analysisResults' = FilterAndSort(results')
                               /\ analysis' = ScoredVerdict(analysisResults')
    /\ UNCHANGED <<searchResults, requests, batchStart, caught, retryAttempts,
                   scorerVars, runnerVars,
                   handlerVars, pureVars, flowVars>>

\* the 500 ms pause between two batches
Delay ==
    /\ pc = "delay"
    /\ scorer' = [scorer EXCEPT !.delays = @ + 1]
    /\ batchStart' = batchStart + batchSize
    /\ pc' = "scoring"
    /\ UNCHANGED <<searchResults, requests, results, analysisResults, replies,
                   analysis, caught, retryAttempts, scorerVars, runnerVars,
                   handlerVars, pureVars, flowVars>>

\* what the catch handler does once handleError has returned
AfterHandleMutant(handled) == Throw

AfterHandle(handled) == Ret(SafeFallbackVerdict)

\* a catch handler that runs the search again after a confirmed retry
CatchMutant ==
    /\ pc = "catch"
    /\ \E answer \in Answers :
          LET me == "duplicate-detection service"
              handled == handleError(retryAttempts[me], TypeError,
                                     "duplicate-detection", answer)
          IN  /\ retryAttempts' = [retryAttempts EXCEPT ![me] = handled.attempts]
              /\ caught' = TRUE
              /\ IF handled.shouldRetry
                 THEN pc' = "idle" /\ UNCHANGED analysis
                 ELSE pc' = "returned" /\ analysis' = SafeFallbackVerdict
    /\ UNCHANGED <<searchResults, requests, batchStart, results,
                   analysisResults, replies, scorer, scorerVars, runnerVars,
                   handlerVars, pureVars, flowVars>>

\* the catch handler of checkForDuplicates
Catch ==
    /\ pc = "catch"
    /\ \E answer \in Answers :
          LET me == "duplicate-detection service"
              handled == handleError(retryAttempts[me], TypeError,
                                     "duplicate-detection", answer)
              end == AfterHandle(handled)
          IN  /\ retryAttempts' = [retryAttempts EXCEPT ![me] = handled.attempts]
              /\ caught' = TRUE
              /\ IF end.threw
                 THEN pc' = "raised" /\ UNCHANGED analysis
                 ELSE pc' = "returned" /\ analysis' = end.value
    /\ UNCHANGED <<searchResults, requests, batchStart, results,
                   analysisResults, replies, scorer, scorerVars, runnerVars,
                   handlerVars, pureVars, flowVars>>

\* the caller takes the verdict; the service is ready for the next call
Return ==
    /\ pc = "returned"
    /\ pc' = "idle"
    /\ searchResults' = <<>>
    /\ requests' = <<>>
    /\ batchStart' = 0
    /\ results' = <<>>
    /\ analysisResults' = <<>>
    /\ replies' = <<>>
    /\ scorer' = NoScorer
    /\ analysis' = NoVerdict
    /\ caught' = FALSE
    /\ UNCHANGED <<retryAttempts, scorerVars, runnerVars,
                   handlerVars, pureVars, flowVars>>

----------------------------------------------------------------------------
(* analyzeIssueSimilarity as a function of the candidates and of what the
   generation service answers to each batch *)

RECURSIVE CollectFrom(_, _, _)
CollectFrom(existingIssues, i, batchReplies) ==
    IF i >= Len(existingIssues) THEN Ret(<<>>)
    ELSE LET batchResults ==
                 analyzeBatch(Slice(existingIssues, i, i + batchSize),
                              batchReplies[(i \div batchSize) + 1])
             rest == CollectFrom(existingIssues, i + batchSize, batchReplies)
         IN  IF batchResults.threw \/ rest.threw THEN Throw
             ELSE Ret(batchResults.value \o rest.value)

analyzeIssueSimilarity(existingIssues, batchReplies) ==
    LET all == CollectFrom(existingIssues, 0, batchReplies)
    IN  IF all.threw THEN Throw ELSE Ret(FilterAndSort(all.value))

RawScores ==
    {Missing, Text, Number(-50), Number(0), Number(61), Number(150)}

ScorerEntries ==
    {NullEntry}
    \cup {Entry(idx, raw, hasReason) :
             idx \in 1..(MaxScorerCandidates + 1), raw \in RawScores,
             hasReason \in BOOLEAN}

SeqsUpTo(S, n) == UNION {[1..k -> S] : k \in 0..n}

ScorerReplies ==
    {Reply(k, <<>>) : k \in FailureKinds}
    \cup {Reply("list", entries) : entries \in SeqsUpTo(ScorerEntries, MaxReplyLen)}

ScorerRun(candidates, reply) == [candidates |-> candidates, reply |-> reply]

NoScorerRun == ScorerRun(<<>>, Reply("none", <<>>))
NoScorerOutput == [done |-> FALSE, batch |-> <<>>, output |-> <<>>]

NoSearchRun ==
    [issue |-> Issue(<<>>, <<>>), kwReply |-> KeywordReply("none", <<>>),
     primary |-> NoRequest, fallback |-> NoRequest]
NoSearchOutput ==
    [done |-> FALSE, threw |-> FALSE, value |-> <<>>, requests |-> <<>>,
     keywords |-> <<>>]

InitScorerIdle == scIn = NoScorerRun /\ scOut = NoScorerOutput

InitSearchIdle == seIn = NoSearchRun /\ seOut = NoSearchOutput

InitScorer ==
    /\ scIn \in {ScorerRun(Candidates(n, 0), reply) :
                    n \in 1..MaxScorerCandidates, reply \in ScorerReplies}
    /\ scOut = NoScorerOutput

\* analyzeIssueSimilarity applied to the candidates of scIn
ApplyScorer ==
    /\ ~scOut.done
    /\ scOut' = [done |-> TRUE,
                 batch |-> analyzeBatch(scIn.candidates, scIn.reply).value,
                 output |-> analyzeIssueSimilarity(scIn.candidates,
                                                   <<scIn.reply>>).value]
    /\ UNCHANGED <<scIn, seIn, seOut, dupVars, retryAttempts, runnerVars,
                   handlerVars, pureVars, flowVars>>

----------------------------------------------------------------------------
(* searchSimilarIssues as a function of the new issue and of what the
   generation service and the tracker gateway answer *)

SearchIssues ==
    {LoginFails,
     Issue(<<>>, <<>>),
     Issue(<<Word(3, "alpha"), Word(4, "digits"), Word(4, "punct"),
             Capital(6)>>, <<Word(7, "alpha")>>),
     Issue(<<Capital(4), Word(5, "alpha"), Word(2, "alpha"), Word(6, "alpha")>>,
           <<Word(7, "alpha"), Word(8, "alpha"), Word(9, "alpha")>>)}

KeywordReplies ==
    KeywordFailures
    \cup {KeywordReply("array", [k \in 1..n |-> Word(6, "alpha")]) : n \in {0, 3, 6}}

SearchOutcomes ==
    {GatewayOutcome(k, <<>>) :
        k \in {"neterr", "notok", "badbody", "nullbody", "noissues"}}
    \cup {GatewayOutcome("issues", Candidates(n, 0)) : n \in 0..MaxFound}

InitSearch ==
    /\ seIn \in [issue : SearchIssues, kwReply : KeywordReplies,
                  primary : SearchOutcomes, fallback : SearchOutcomes]
    /\ seOut = NoSearchOutput

\* searchSimilarIssues applied to the inputs of seIn
ApplySearch ==
    /\ ~seOut.done
    /\ LET s == searchSimilarIssues(seIn.issue.title, seIn.issue.description,
                                    seIn.kwReply, seIn.primary, seIn.fallback)
       IN  seOut' = [done |-> TRUE, threw |-> s.threw, value |-> s.value,
                     requests |-> s.requests,
                     keywords |-> extractKeywords(seIn.issue.title,
                                                  seIn.issue.description,
                                                  seIn.kwReply)]
    /\ UNCHANGED <<seIn, scIn, scOut, dupVars, retryAttempts, runnerVars,
                   handlerVars, pureVars, flowVars>>

----------------------------------------------------------------------------
(* APIWrapper.makeRequest *)

RunnerContexts == {"fetch-projects", "create-issue"}

\* what an invocation of the operation may raise
Raised(seq) ==
    {PlainError(ind, seq) :
        ind \in {{}, {"timeout"}, {"401"}, {"400"}, {"openai"}}}
    \cup {AppError("VALIDATION_ERROR", FALSE, {}, seq),
          AppError("JIRA_API_ERROR", TRUE, {}, seq)}

NoRun == [context |-> "default", budget |-> 0, attempt |-> 0,
          invocations |-> 0, prompts |-> 0, startCount |-> 0,
          retryableOnly |-> TRUE, confirmedOnly |-> TRUE]
NoError == PlainError({}, 0)
NoOutcome == [kind |-> "none", error |-> NoError, value |-> 0]

InitRunnerIdle ==
    /\ rpc = "idle"
    /\ run = NoRun
    /\ lastThrown = NoError
    /\ outcome = NoOutcome

\* throw error
RethrownMutant(error) == normalizeError(error)

Rethrown(error) == error

\* attempt === maxRetries
LastAttemptMutant(attempt, budget) == attempt + 1 >= budget

LastAttempt(attempt, budget) == attempt = budget

\* makeRequest(operation, context, maxRetries) is called
Begin ==
    /\ rpc = "idle"
    /\ \E context \in RunnerContexts, budget \in 0..MaxBudget :
          run' = [NoRun EXCEPT !.context = context, !.budget = budget,
                               !.startCount = retryAttempts["runner"][context]]
    /\ rpc' = "calling"
    /\ UNCHANGED <<lastThrown, outcome, retryAttempts, dupVars, scorerVars,
                   handlerVars, pureVars, flowVars>>

\* a success that clears the counter of the label
InvokeSucceedsMutant ==
    /\ rpc = "calling"
    /\ run' = [run EXCEPT !.invocations = @ + 1]
    /\ outcome' = [kind |-> "returned", error |-> NoError,
                   value |-> run.invocations + 1]
    /\ rpc' = "done"
    /\ retryAttempts' = [retryAttempts EXCEPT
                            !["runner"] = resetRetryCount(@, run.context)]
    /\ UNCHANGED <<lastThrown, dupVars, scorerVars,
                   handlerVars, pureVars, flowVars>>

\* the operation is invoked and succeeds
InvokeSucceeds ==
    /\ rpc = "calling"
    /\ run' = [run EXCEPT !.invocations = @ + 1]
    /\ outcome' = [kind |-> "returned", error |-> NoError,
                   value |-> run.invocations + 1]
    /\ rpc' = "done"
    /\ UNCHANGED <<lastThrown, retryAttempts, dupVars, scorerVars,
                   handlerVars, pureVars, flowVars>>

\* the operation is invoked and raises an error
InvokeFails ==
    /\ rpc = "calling"
    /\ \E error \in Raised(run.invocations + 1) :
          /\ lastThrown' = error
          /\ run' = [run EXCEPT
                        !.invocations = @ + 1,
                        !.retryableOnly = @ /\ normalizeError(error).isRetryable]
          /\ IF LastAttempt(run.attempt, run.budget)
             THEN /\ outcome' = [kind |-> "raised", error |-> Rethrown(error),
                                 value |-> 0]
                  /\ rpc' = "done"
             ELSE /\ rpc' = "handling"
                  /\ UNCHANGED outcome
    /\ UNCHANGED <<retryAttempts, dupVars, scorerVars,
                   handlerVars, pureVars, flowVars>>

\* handleError decides whether the operation is invoked again
Handle ==
    /\ rpc = "handling"
    /\ \E answer \in Answers :
          LET handled == handleError(retryAttempts["runner"], lastThrown,
                                     run.context, answer)
          IN  /\ retryAttempts' = [retryAttempts EXCEPT !["runner"] = handled.attempts]
              /\ run' = [run EXCEPT
                            !.prompts = @ + (IF handled.prompted THEN 1 ELSE 0),
                            !.attempt = IF handled.shouldRetry THEN @ + 1 ELSE @,
                            !.confirmedOnly =
                                @ /\ (handled.prompted => Confirms(answer))]
              /\ IF handled.shouldRetry /\ run.attempt + 1 <= run.budget
                 THEN rpc' = "calling" /\ UNCHANGED outcome
                 ELSE /\ rpc' = "done"
                      /\ outcome' = [kind |-> "raised",
                                     error |-> Rethrown(lastThrown), value |-> 0]
    /\ UNCHANGED <<lastThrown, dupVars, scorerVars,
                   handlerVars, pureVars, flowVars>>

\* the caller takes the result or the error
Finish ==
    /\ rpc = "done"
    /\ rpc' = "idle"
    /\ run' = NoRun
    /\ lastThrown' = NoError
    /\ outcome' = NoOutcome
    /\ UNCHANGED <<retryAttempts, dupVars, scorerVars,
                   handlerVars, pureVars, flowVars>>

----------------------------------------------------------------------------
(* One ErrorHandler, called by its owner: handleError and resetRetryCount *)

\* the contexts the agent names: handleError(error, 'create-issue-flow') and
\* resetRetryCount('create-issue')
HandlerContexts == {"create-issue", "create-issue-flow"}

\* what a caller may hand to handleError: a thrown Error with any message, or
\* an AppError one of the static creators built
HandlerErrors ==
    {PlainError(ind, 0) : ind \in {{}, {"timeout", "401"}}
                                  \cup {{i} : i \in Indicators}}
    \cup {createNetworkError({}), createAuthError({}), createValidationError({}),
          createJiraError({}, 0), createJiraError({}, 404),
          createOpenAIError({})}

NoCall ==
    [op |-> "none", context |-> "default", error |-> NoError, answer |-> "",
     before |-> 0, appError |-> NoError, shouldRetry |-> FALSE,
     prompted |-> FALSE, label |-> 0, delay |-> 0]

NoTrack ==
    [active |-> FALSE, context |-> "default", from |-> 0, n |-> 0,
     declinedEarlier |-> FALSE, declinedLast |-> FALSE]

InitHandlerIdle == hlast = NoCall /\ htrack = NoTrack

\* the retryable failures handled on the context of the resetRetryCount call
\* that came last: the counter that call found, their number, up to
\* maxRetries, and whether the retry of the latest or of an earlier one was
\* declined
Tracked(track, context, retryable, handled) ==
    IF ~track.active \/ track.context # context \/ ~retryable THEN track
    ELSE IF track.n = maxRetries THEN NoTrack
    ELSE [track EXCEPT !.n = @ + 1,
                       !.declinedEarlier = @ \/ track.declinedLast,
                       !.declinedLast = ~handled.shouldRetry]

\* await this.errorHandler.handleError(error, context)
HandleCall ==
    \E error \in HandlerErrors, context \in HandlerContexts, answer \in Answers :
        LET attempts == retryAttempts["agent"]
            handled == handleError(attempts, error, context, answer)
        IN  /\ retryAttempts' = [retryAttempts EXCEPT !["agent"] = handled.attempts]
            /\ hlast' = [op |-> "handle", context |-> context, error |-> error,
                         answer |-> IF handled.prompted THEN answer ELSE "",
                         before |-> attempts[context],
                         appError |-> normalizeError(error),
                         shouldRetry |-> handled.shouldRetry,
                         prompted |-> handled.prompted,
                         label |-> IF handled.prompted
                                   THEN PromptLabel(attempts, context) ELSE 0,
                         delay |-> handled.delay]
            /\ htrack' = Tracked(htrack, context,
                                 normalizeError(error).isRetryable, handled)
            /\ UNCHANGED <<dupVars, scorerVars, runnerVars, pureVars, flowVars>>

\* this.errorHandler.resetRetryCount(context)
ResetCall ==
    \E context \in HandlerContexts :
        /\ retryAttempts' = [retryAttempts EXCEPT
                                !["agent"] = resetRetryCount(@, context)]
        /\ hlast' = [NoCall EXCEPT !.op = "reset", !.context = context,
                                   !.before = retryAttempts["agent"][context]]
        /\ htrack' = [NoTrack EXCEPT !.active = TRUE, !.context = context,
                                     !.from = retryAttempts["agent"][context]]
        /\ UNCHANGED <<dupVars, scorerVars, runnerVars, pureVars, flowVars>>

----------------------------------------------------------------------------
(* The agent as the caller of makeRequest: its own ErrorHandler is the one  *)
(* it resets and the one its catch handler asks                             *)

\* if (result.success) this.errorHandler.resetRetryCount('create-issue')
ResetAfterSuccess ==
    /\ rpc = "done"
    /\ outcome.kind = "returned"
    /\ run.context = "create-issue"
    /\ retryAttempts' = [retryAttempts EXCEPT
                            !["agent"] = resetRetryCount(@, "create-issue")]
    /\ rpc' = "settled"
    /\ UNCHANGED <<run, lastThrown, outcome, dupVars, scorerVars, handlerVars,
                   pureVars, flowVars>>

\* catch (error) { await this.errorHandler.handleError(error, 'create-issue-flow') }
CatchFlow ==
    /\ rpc = "done"
    /\ outcome.kind = "raised"
    /\ \E answer \in Answers :
          retryAttempts' =
              [retryAttempts EXCEPT
                  !["agent"] = handleError(@, outcome.error, "create-issue-flow",
                                           answer).attempts]
    /\ rpc' = "settled"
    /\ UNCHANGED <<run, lastThrown, outcome, dupVars, scorerVars, handlerVars,
                   pureVars, flowVars>>

\* the flow returns
Settle ==
    /\ rpc = "settled"
    /\ rpc' = "idle"
    /\ run' = NoRun
    /\ lastThrown' = NoError
    /\ outcome' = NoOutcome
    /\ UNCHANGED <<retryAttempts, dupVars, scorerVars, handlerVars, pureVars,
                   flowVars>>

----------------------------------------------------------------------------
(* One normalizeError application and one generateRecommendations one *)

ErrorTypes ==
    {"NETWORK_ERROR", "AUTHENTICATION_ERROR", "VALIDATION_ERROR",
     "JIRA_API_ERROR", "OPENAI_ERROR", "UNKNOWN_ERROR"}

\* a thrown Error with any message, or an AppError of any kind, flag, message
\* and status code
ClassifyInputs ==
    {PlainError(ind, 0) : ind \in SUBSET Indicators}
    \cup {[AppError(type, isRetryable, ind, 0) EXCEPT !.statusCode = statusCode] :
             type \in ErrorTypes, isRetryable \in BOOLEAN,
             ind \in SUBSET Indicators, statusCode \in {0, 404}}

NoClassified == [done |-> FALSE, once |-> NoError, twice |-> NoError]

InitClassifyIdle == clIn = NoError /\ clOut = NoClassified

InitClassify == clIn \in ClassifyInputs /\ clOut = NoClassified

\* normalizeError applied to clIn, and again to what it returned
ApplyClassify ==
    /\ ~clOut.done
    /\ clOut' = [done |-> TRUE, once |-> normalizeError(clIn),
                 twice |-> normalizeError(normalizeError(clIn))]
    /\ UNCHANGED <<clIn, recIn, recOut, dupVars, retryAttempts, scorerVars,
                   runnerVars, handlerVars, flowVars>>

NoRecommendations == [done |-> FALSE, recommendations |-> <<>>]

InitRecommendIdle == recIn = <<>> /\ recOut = NoRecommendations

\* the similarities the scorer may have given the candidates
MatchScores == {Num(60), Num(61), Num(80), Num(81), Num(100)}

\* steps 2 and 3 of checkForDuplicates on candidates scored sims
MatchesOf(sims) ==
    SelectSeq(FilterAndSort([j \in 1..Len(sims) |->
                                SimilarIssue(Candidate(j, TRUE), sims[j],
                                             "AI analysis")]),
              Significant)

\* the significant matches checkForDuplicates hands to generateRecommendations
SignificantMatches == {MatchesOf(sims) : sims \in SeqsUpTo(MatchScores, MaxMatches)}

InitRecommend == recIn \in SignificantMatches /\ recOut = NoRecommendations

\* generateRecommendations applied to recIn
ApplyRecommend ==
    /\ ~recOut.done
    /\ recOut' = [done |-> TRUE, recommendations |-> generateRecommendations(recIn)]
    /\ UNCHANGED <<recIn, clIn, clOut, dupVars, retryAttempts, scorerVars,
                   runnerVars, handlerVars, flowVars>>

----------------------------------------------------------------------------
(* The issue-creation flow of the agent *)

\* how the gateway answers one request of the agent: the connection fails,
\* the status is not ok, the body is no JSON, or the request is served
GatewayKinds == {"neterr", "notok", "badbody", "ok"}

\* the answers to GET /api/jira/projects: projects is the number of projects
\* in the body, none when the body has no projects field
ProjectAnswers ==
    {[kind |-> k, projects |-> 0] : k \in GatewayKinds \ {"ok"}}
    \cup {[kind |-> "ok", projects |-> n] : n \in 0..1}

\* the answers to POST /api/jira/create-issue
CreateAnswers == {[kind |-> k, projects |-> 0] : k \in GatewayKinds}

Raise(error) == [threw |-> TRUE, value |-> <<>>, error |-> error]

\* the try block of getAvailableProjects raises on a failed connection, a
\* status that is not ok and a body that is no JSON; its catch returns []
getAvailableProjects(out) ==
    LET body == IF out.kind = "ok" THEN Ret(out.projects)
                ELSE Raise(PlainError(IF out.kind = "neterr" THEN {"timeout"}
                                      ELSE {}, 0))
    IN  IF body.threw THEN Ret(0) ELSE body

\* the try block of createJiraIssue raises on a failed connection and a body
\* that is no JSON; its catch returns { success: false }
createJiraIssue(out) ==
    LET body == IF out.kind \in {"neterr", "badbody"}
                THEN Raise(PlainError(IF out.kind = "neterr" THEN {"timeout"}
                                      ELSE {}, 0))
                ELSE Ret([success |-> out.kind = "ok"])
    IN  IF body.threw THEN Ret([success |-> FALSE]) ELSE body

\* what a makeRequest call did and how it ended
Requested(attempts, r, invocations, prompts) ==
    [attempts |-> attempts, threw |-> r.threw, value |-> r.value,
     invocations |-> invocations, prompts |-> prompts]

\* makeRequest(operation, context, budget) from the iteration attempt on:
\* settled[k] is how the k-th invocation of the operation settles and
\* answers[k] what the user answers to the k-th retry prompt
RECURSIVE makeRequest(_, _, _, _, _, _, _)
makeRequest(attempts, context, budget, settled, answers, attempt, prompts) ==
    LET r == settled[attempt + 1]
    IN  IF ~r.threw \/ LastAttempt(attempt, budget)
        THEN Requested(attempts, r, attempt + 1, prompts)
        ELSE LET handled == handleError(attempts, r.error, context,
                                        answers[prompts + 1])
                 shown == prompts + (IF handled.prompted THEN 1 ELSE 0)
             IN  IF ~handled.shouldRetry
                 THEN Requested(handled.attempts, r, attempt + 1, shown)
                 ELSE makeRequest(handled.attempts, context, budget, settled,
                                  answers, attempt + 1, shown)

\* an empty line taken for a yes
confirmMutant(answer, defaultValue) ==
    IF answer = "" THEN TRUE ELSE Confirms(answer)

\* CLIUtils.confirm(message, defaultValue) on the line the user typed
confirm(answer, defaultValue) ==
    IF answer = "" THEN defaultValue ELSE Confirms(answer)

\* the entries of the selection menu, and 4 for a selection that is none of them
MenuChoices == 0..4

\* what displayAnalysisResults returned and whether it showed the menu and
\* the follow-up confirmation
Shown(proceed, asked, reviewed) ==
    [proceed |-> proceed, asked |-> asked, reviewed |-> reviewed]

\* 'Modify the issue to be more specific' taken for a go-ahead
displayAnalysisResultsMutant(duplicateAnalysis, choice, answer) ==
    IF ~duplicateAnalysis.hasPotentialDuplicates THEN Shown(TRUE, FALSE, FALSE)
    ELSE IF choice = 0 THEN Shown(TRUE, TRUE, FALSE)
    ELSE IF choice = 1 THEN Shown(confirm(answer, FALSE), TRUE, TRUE)
    ELSE IF choice = 2 THEN Shown(FALSE, TRUE, FALSE)
    ELSE IF choice = 3 THEN Shown(TRUE, TRUE, FALSE)
    ELSE Shown(FALSE, TRUE, FALSE)

\* const shouldProceed = await displayAnalysisResults(duplicateAnalysis)
displayAnalysisResults(duplicateAnalysis, choice, answer) ==
    IF ~duplicateAnalysis.hasPotentialDuplicates THEN Shown(TRUE, FALSE, FALSE)
    ELSE IF choice = 0 THEN Shown(TRUE, TRUE, FALSE)
    ELSE IF choice = 1 THEN Shown(confirm(answer, FALSE), TRUE, TRUE)
    ELSE IF choice = 2 THEN Shown(FALSE, TRUE, FALSE)
    ELSE IF choice = 3 THEN Shown(FALSE, TRUE, FALSE)
    ELSE Shown(FALSE, TRUE, FALSE)

\* the verdicts checkForDuplicates returns without entering its catch handler
FlowVerdicts ==
    {NoCandidatesVerdict}
    \cup {ScoredVerdict(FilterAndSort([j \in 1..Len(sims) |->
                                         SimilarIssue(Candidate(j, TRUE), sims[j],
                                                      "AI analysis")])) :
             sims \in SeqsUpTo(MatchScores, MaxFlowMatches)}

\* what the user answers to the retry prompts of one makeRequest call
FlowAnswers == {"y", "n"}

\* gateway[k] is the k-th request of the flow to the gateway and its answer
NoPresentation ==
    [done |-> FALSE, choice |-> 0, answer |-> "", proceed |-> FALSE,
     asked |-> FALSE, reviewed |-> FALSE]

\* log holds, in order, what the flow did: its requests to the gateway and
\* the answers it got from checkForDuplicates, from displayAnalysisResults
\* and from confirmCreation
NoFlow ==
    [gateway |-> <<>>, prompts |-> 0, projects |-> 0,
     duplicateAnalysis |-> NoVerdict, presentation |-> NoPresentation,
     confirmation |-> [done |-> FALSE, answer |-> ""],
     log |-> <<>>, ended |-> "none"]

InitFlowIdle == fpc = "idle" /\ flow = NoFlow

Sent(endpoint, outs, invocations) ==
    [k \in 1..invocations |-> [endpoint |-> endpoint, kind |-> outs[k].kind]]

\* the flow up to the projects: makeRequest(getAvailableProjects, 'fetch-projects')
FetchProjects ==
    /\ fpc = "idle"
    /\ \E outs \in [1..(maxRetries + 1) -> ProjectAnswers],
          answers \in [1..maxRetries -> FlowAnswers] :
          LET r == makeRequest(retryAttempts["runner"], "fetch-projects",
                               maxRetries,
                               [k \in 1..(maxRetries + 1) |->
                                   getAvailableProjects(outs[k])],
                               answers, 0, 0)
              was == [flow EXCEPT
                         !.gateway = @ \o Sent("projects", outs, r.invocations),
                         !.log = @ \o [k \in 1..r.invocations |-> "projects request"],
                         !.prompts = @ + r.prompts]
          IN  IF r.threw
              THEN /\ retryAttempts' =
                          [retryAttempts EXCEPT
                              !["runner"] = r.attempts,
                              !["agent"] = handleError(@, r.error, "create-issue-flow",
                                                       answers[1]).attempts]
                   /\ flow' = [was EXCEPT !.ended = "error"]
                   /\ fpc' = "done"
              ELSE /\ retryAttempts' = [retryAttempts EXCEPT !["runner"] = r.attempts]
                   /\ IF r.value = 0
                      THEN flow' = [was EXCEPT !.ended = "no projects"] /\ fpc' = "done"
                      ELSE flow' = [was EXCEPT !.projects = r.value] /\ fpc' = "check"
    /\ UNCHANGED <<dupVars, scorerVars, runnerVars, handlerVars, pureVars>>

\* collectIssueDetails and checkForDuplicates: the verdict is one the service
\* computes, or the safe one of its catch handler after handleError
CheckDuplicates ==
    /\ fpc = "check"
    /\ \/ /\ \E verdict \in FlowVerdicts :
                flow' = [flow EXCEPT !.duplicateAnalysis = verdict,
                                     !.log = Append(@, "checked")]
          /\ UNCHANGED retryAttempts
       \/ \E answer \in Answers :
             LET me == "duplicate-detection service"
                 handled == handleError(retryAttempts[me], TypeError,
                                        "duplicate-detection", answer)
             IN  /\ retryAttempts' = [retryAttempts EXCEPT ![me] = handled.attempts]
                 /\ flow' = [flow EXCEPT
                                !.duplicateAnalysis = AfterHandle(handled).value,
                                !.log = Append(@, "checked")]
    /\ fpc' = "present"
    /\ UNCHANGED <<dupVars, scorerVars, runnerVars, handlerVars, pureVars>>

\* displayAnalysisResults and what the flow does with its answer
PresentAnalysis ==
    /\ fpc = "present"
    /\ \E choice \in MenuChoices, answer \in Answers :
          LET shown == displayAnalysisResults(flow.duplicateAnalysis, choice, answer)
              was == [flow EXCEPT
                         !.presentation =
                             [done |-> TRUE,
                              choice |-> IF shown.asked THEN choice ELSE 0,
                              answer |-> IF shown.reviewed THEN answer ELSE "",
                              proceed |-> shown.proceed, asked |-> shown.asked,
                              reviewed |-> shown.reviewed],
                         !.log = Append(@, IF shown.proceed THEN "proceed"
                                           ELSE "do not proceed")]
          IN  IF shown.proceed
              THEN fpc' = "confirm" /\ flow' = was
              ELSE fpc' = "done"
                   /\ flow' = [was EXCEPT !.ended = "cancelled on duplicates"]
    /\ UNCHANGED <<retryAttempts, dupVars, scorerVars, runnerVars, handlerVars,
                   pureVars>>

\* confirmCreation and what the flow does with its answer
ConfirmCreation ==
    /\ fpc = "confirm"
    /\ \E answer \in Answers :
          LET was == [flow EXCEPT !.confirmation = [done |-> TRUE, answer |-> answer]]
          IN  IF confirm(answer, FALSE)
              THEN fpc' = "create"
                   /\ flow' = [was EXCEPT !.log = Append(@, "confirmed")]
              ELSE fpc' = "done"
                   /\ flow' = [was EXCEPT !.log = Append(@, "not confirmed"),
                                          !.ended = "cancelled by user"]
    /\ UNCHANGED <<retryAttempts, dupVars, scorerVars, runnerVars, handlerVars,
                   pureVars>>

\* makeRequest(createJiraIssue, 'create-issue'), showCreationResult and the
\* reset on success
CreateIssue ==
    /\ fpc = "create"
    /\ \E outs \in [1..(maxRetries + 1) -> CreateAnswers],
          answers \in [1..maxRetries -> FlowAnswers] :
          LET r == makeRequest(retryAttempts["runner"], "create-issue",
                               maxRetries,
                               [k \in 1..(maxRetries + 1) |->
                                   createJiraIssue(outs[k])],
                               answers, 0, 0)
              was == [flow EXCEPT
                         !.gateway = @ \o Sent("create-issue", outs, r.invocations),
                         !.log = @ \o [k \in 1..r.invocations |->
                                          "create-issue request"],
                         !.prompts = @ + r.prompts]
          IN  IF r.threw
              THEN /\ retryAttempts' =
                          [retryAttempts EXCEPT
                              !["runner"] = r.attempts,
                              !["agent"] = handleError(@, r.error, "create-issue-flow",
                                                       answers[1]).attempts]
                   /\ flow' = [was EXCEPT !.ended = "error"]
              ELSE /\ retryAttempts' =
                          [retryAttempts EXCEPT
                              !["runner"] = r.attempts,
                              !["agent"] = IF r.value.success
                                           THEN resetRetryCount(@, "create-issue")
                                           ELSE @]
                   /\ flow' = [was EXCEPT !.ended = IF r.value.success THEN "created"
                                                    ELSE "not created"]
    /\ fpc' = "done"
    /\ UNCHANGED <<dupVars, scorerVars, runnerVars, handlerVars, pureVars>>

\* the flow returns to the menu
FlowReturn ==
    /\ fpc = "done"
    /\ fpc' = "idle"
    /\ flow' = NoFlow
    /\ UNCHANGED <<retryAttempts, dupVars, scorerVars, runnerVars, handlerVars,
                   pureVars>>

----------------------------------------------------------------------------
(* Specifications *)

Init ==
    /\ InitDup
    /\ retryAttempts = NoAttempts
    /\ InitScorerIdle
    /\ InitSearchIdle
    /\ InitRunnerIdle
    /\ InitHandlerIdle
    /\ InitClassifyIdle
    /\ InitRecommendIdle
    /\ InitFlowIdle

Next == Search \/ ScoreBatch \/ Delay \/ Catch \/ Return

Spec == Init /\ [][Next]_vars

\* analyzeIssueSimilarity over bounded candidates and replies
InitScorerSpec ==
    /\ InitDup
    /\ retryAttempts = NoAttempts
    /\ InitScorer
    /\ InitSearchIdle
    /\ InitRunnerIdle
    /\ InitHandlerIdle
    /\ InitClassifyIdle
    /\ InitRecommendIdle
    /\ InitFlowIdle

NextScorer == ApplyScorer

SpecScorer == InitScorerSpec /\ [][NextScorer]_vars

\* searchSimilarIssues over bounded issues and answers
InitSearchSpec ==
    /\ InitDup
    /\ retryAttempts = NoAttempts
    /\ InitScorerIdle
    /\ InitSearch
    /\ InitRunnerIdle
    /\ InitHandlerIdle
    /\ InitClassifyIdle
    /\ InitRecommendIdle
    /\ InitFlowIdle

NextSearch == ApplySearch

SpecSearch == InitSearchSpec /\ [][NextSearch]_vars

\* makeRequest calls, one after another, on one APIWrapper
NextRunner == Begin \/ InvokeSucceeds \/ InvokeFails \/ Handle \/ Finish

SpecRunner == Init /\ [][NextRunner]_vars

\* the liveness of makeRequest: the operation settles and the user answers
SpecRunnerLive == Init /\ [][NextRunner]_vars /\ WF_vars(NextRunner)

\* normalizeError over thrown errors and errors already classified
InitClassifySpec ==
    /\ InitDup
    /\ retryAttempts = NoAttempts
    /\ InitScorerIdle
    /\ InitSearchIdle
    /\ InitRunnerIdle
    /\ InitHandlerIdle
    /\ InitClassify
    /\ InitRecommendIdle
    /\ InitFlowIdle

NextClassify == ApplyClassify

SpecClassify == InitClassifySpec /\ [][NextClassify]_vars

\* generateRecommendations over bounded lists of significant matches
InitRecommendSpec ==
    /\ InitDup
    /\ retryAttempts = NoAttempts
    /\ InitScorerIdle
    /\ InitSearchIdle
    /\ InitRunnerIdle
    /\ InitHandlerIdle
    /\ InitClassifyIdle
    /\ InitRecommend
    /\ InitFlowIdle

NextRecommend == ApplyRecommend

SpecRecommend == InitRecommendSpec /\ [][NextRecommend]_vars

\* the issue-creation flow of the agent, run again and again
NextFlow ==
    FetchProjects \/ CheckDuplicates \/ PresentAnalysis \/ ConfirmCreation
    \/ CreateIssue \/ FlowReturn

SpecFlow == Init /\ [][NextFlow]_vars

\* makeRequest calls of the agent, each followed by what the agent does with
\* its result or its error
NextAgent == NextRunner \/ ResetAfterSuccess \/ CatchFlow \/ Settle

SpecAgent == Init /\ [][NextAgent]_vars

\* handleError and resetRetryCount calls, one after another, on one ErrorHandler
NextHandler == HandleCall \/ ResetCall

SpecHandler == Init /\ [][NextHandler]_vars

----------------------------------------------------------------------------
(* Properties *)

Range(f) == {f[x] : x \in DOMAIN f}

Scored == pc = "returned" /\ ~caught /\ scorer.invoked

\* C1: checkForDuplicates never lets an exception out, whatever the gateway,
\* the generation service, the candidate records and the user's answer are;
\* a call that went through its catch handler returns the verdict with
\* hasPotentialDuplicates false, no similar issue and the one cautionary
\* recommendation.
C1_NeverRaises ==
    /\ pc # "raised"
    /\ (pc = "returned" /\ caught) =>
          /\ analysis.hasPotentialDuplicates = FALSE
          /\ analysis.similarIssues = <<>>
          /\ analysis.recommendations =
                <<"Unable to check for duplicates. Proceed with caution.">>

\* a call whose second batch holds a malformed candidate has returned from
\* the catch handler
C1_Witness ==
    /\ pc = "returned" /\ caught /\ scorer.calls = 1
    /\ Len(analysis.recommendations) = 1

\* C2: similarIssues holds exactly the scorer results above 0.6, in the
\* scorer's order, and hasPotentialDuplicates says whether there is one.
C2_StrictThreshold ==
    Scored =>
       /\ \A r \in Range(analysisResults) :
             (r \in Range(analysis.similarIssues)) <=> (r.similarity.v > 60)
       /\ Range(analysis.similarIssues) \subseteq Range(analysisResults)
       /\ Len(analysis.similarIssues) =
             Cardinality({k \in 1..Len(analysisResults) :
                             analysisResults[k].similarity.v > 60})
       /\ analysis.hasPotentialDuplicates <=> (analysis.similarIssues # <<>>)

\* a result at exactly 0.6 was left out while one at 0.61 was kept
C2_Witness ==
    /\ Scored
    /\ \E r \in Range(analysisResults) :
          r.similarity.v = 60 /\ r \notin Range(analysis.similarIssues)
    /\ \E r \in Range(analysis.similarIssues) : r.similarity.v = 61

\* C3: a search without candidates ends the call with the safe-to-proceed
\* verdict, and the scorer was not invoked: no scoring call, no delay.
C3_EmptySearchShortCircuits ==
    (pc = "returned" /\ ~caught /\ searchResults = <<>>) =>
       /\ analysis.hasPotentialDuplicates = FALSE
       /\ analysis.similarIssues = <<>>
       /\ analysis.recommendations =
             <<"No similar issues found. Safe to proceed with creation.">>
       /\ ~scorer.invoked /\ scorer.calls = 0 /\ scorer.delays = 0
       /\ results = <<>> /\ replies = <<>>

\* both queries were sent and no candidate came back
C3_Witness ==
    /\ pc = "returned" /\ ~caught /\ searchResults = <<>>
    /\ Len(requests) = 2
    /\ analysis.recommendations # <<>>

\* the entries of a reply that name the candidate at position j
Naming(entries, j) ==
    {k \in 1..Len(entries) : ~entries[k].isNull /\ entries[k].issueIndex = j}

\* the reply was a list and no null entry stopped the lookup of a candidate
ParsedFor(len, reply) ==
    /\ reply.kind = "list"
    /\ \A j \in 1..len, k \in 1..Len(reply.entries) :
          reply.entries[k].isNull => \E m \in Naming(reply.entries, j) : m < k

FirstNaming(entries, j) ==
    entries[CHOOSE k \in Naming(entries, j) :
               \A m \in Naming(entries, j) : k <= m]

Unscored(entries, j) ==
    Naming(entries, j) # {} /\ FirstNaming(entries, j).similarity.t = "missing"

AnalysisFailed(r) ==
    r.similarity = Num(10) /\ r.reason = "Analysis failed"

\* C4 as stated: a candidate whose entry is missing, unmatched or without a
\* score gets similarity 0.1 and the reason "Analysis failed".
C4_Original ==
    (scOut.done /\ ParsedFor(Len(scIn.candidates), scIn.reply)) =>
       \A j \in 1..Len(scIn.candidates) :
          (Naming(scIn.reply.entries, j) = {} \/ Unscored(scIn.reply.entries, j))
             => AnalysisFailed(scOut.batch[j])

\* C4 as amended: a candidate no entry names gets similarity 0.1 and the
\* reason "Analysis failed"; a candidate whose entry carries no score gets
\* similarity 0 and the entry's own reason (or "AI analysis completed"), and
\* is then dropped from the scorer's output.
C4_MissingEntryDefaults ==
    (scOut.done /\ ParsedFor(Len(scIn.candidates), scIn.reply)) =>
       \A j \in 1..Len(scIn.candidates) :
          /\ Naming(scIn.reply.entries, j) = {} =>
                /\ AnalysisFailed(scOut.batch[j])
                /\ scOut.batch[j] \in Range(scOut.output)
          /\ Unscored(scIn.reply.entries, j) =>
                /\ scOut.batch[j].similarity = Num(0)
                /\ scOut.batch[j].reason \in {"service reason", "AI analysis completed"}
                /\ \A r \in Range(scOut.output) : r.key # j

\* one candidate has no entry and another has an entry without a score
C4_Witness ==
    /\ scOut.done /\ ParsedFor(Len(scIn.candidates), scIn.reply)
    /\ \E j \in 1..Len(scIn.candidates) : Naming(scIn.reply.entries, j) = {}
    /\ \E j \in 1..Len(scIn.candidates) : Unscored(scIn.reply.entries, j)
    /\ Len(scOut.output) = 1

\* the positions of the candidates of batch b among n candidates
BatchPositions(b, n) == {j \in 1..n : (j - 1) \div 5 = b - 1}

\* C5: a batch whose generation call failed or whose reply is no list gives
\* each of its candidates 0.1 and "Unable to perform detailed analysis"; the
\* candidates of the other batches have what the service said about them.
C5_FailureStaysInBatch ==
    \A b \in 1..Len(replies) :
       \A j \in BatchPositions(b, Len(results)) :
          LET p == j - 5 * (b - 1)
              named == Naming(replies[b].entries, p)
          IN  /\ results[j].key = searchResults[j].key
              /\ replies[b].kind \in {"throw", "empty", "unparsable", "nonlist"} =>
                    /\ results[j].similarity = Num(10)
                    /\ results[j].reason = "Unable to perform detailed analysis"
              /\ replies[b].kind = "list" =>
                    /\ results[j].reason # "Unable to perform detailed analysis"
                    /\ named # {} =>
                          /\ results[j].similarity =
                                Num(FirstNaming(replies[b].entries, p).similarity.v)
                          /\ results[j].reason = "service reason"

\* seven candidates, the second call failed: five service scores, then two
\* fallbacks
C5_Witness ==
    /\ Scored /\ Len(searchResults) = 7 /\ Len(replies) = 2
    /\ replies[1].kind = "list" /\ Len(replies[1].entries) = 5
    /\ replies[2].kind = "throw"
    /\ Len(analysisResults) = 7
    /\ \A j \in 1..5 : analysisResults[j].reason = "service reason"
    /\ \A j \in 6..7 :
          /\ analysisResults[j].reason = "Unable to perform detailed analysis"
          /\ analysisResults[j].similarity = Num(10)

\* C6: every similarity the scorer returns is a number between 0 and 1.
C6_SimilarityInUnitInterval ==
    scOut.done =>
       \A r \in Range(scOut.output) :
          ~r.similarity.nan /\ 0 <= r.similarity.v /\ r.similarity.v <= 100

\* a score above 1 came back as 1 while a score that is no number, in the
\* same reply, did not come back
C6_Witness ==
    /\ scOut.done /\ scIn.reply.kind = "list"
    /\ \E k \in 1..Len(scIn.reply.entries) :
          scIn.reply.entries[k].similarity = Number(150)
    /\ \E k \in 1..Len(scIn.reply.entries) :
          scIn.reply.entries[k].similarity = Text
    /\ Len(scOut.output) = 1
    /\ scOut.output[1].similarity = Num(100)

Ordered(s) ==
    \A a, b \in 1..Len(s) :
       a < b =>
          /\ s[a].similarity.v >= s[b].similarity.v
          /\ s[a].similarity.v = s[b].similarity.v => s[a].key < s[b].key

\* C7: the scorer's output and similarIssues are in non-increasing order of
\* similarity, equal similarities in the order of the search result.
C7_SortedStable ==
    Scored => Ordered(analysisResults) /\ Ordered(analysis.similarIssues)

\* two equal results follow a later candidate with a higher score
C7_Witness ==
    /\ Scored
    /\ \E a, b, c \in 1..Len(analysisResults) :
          /\ a < b /\ b < c
          /\ analysisResults[a].key > analysisResults[c].key
          /\ analysisResults[b].key < analysisResults[c].key
          /\ analysisResults[b].similarity = analysisResults[c].similarity
          /\ analysisResults[a].similarity.v > analysisResults[b].similarity.v

QueryFailed(out) == out.kind \in {"neterr", "notok", "badbody", "nullbody"}

\* C8: searchSimilarIssues raises nothing and returns a sequence, the empty
\* one when the primary and the fallback query both fail.
C8_SearchNeverRaises ==
    seOut.done =>
       /\ ~seOut.threw
       /\ DOMAIN seOut.value = 1..Len(seOut.value)
       /\ (QueryFailed(seIn.primary) /\ QueryFailed(seIn.fallback)) =>
             seOut.value = <<>>

\* the primary query met a network error and the fallback an unreadable body
C8_Witness ==
    /\ seOut.done /\ ~seOut.threw
    /\ seIn.primary.kind = "neterr" /\ seIn.fallback.kind = "badbody"
    /\ Len(seOut.requests) = 2 /\ seOut.value = <<>>

Exhausting ==
    /\ rpc = "done" /\ outcome.kind = "raised" /\ run.budget = 3
    /\ run.retryableOnly /\ run.confirmedOnly

\* C9 as stated: at most budget+1 invocations; with budget 3, retryable
\* failures only and a user who always confirms, three prompts and the
\* failure of the fourth invocation.
C9_Original ==
    /\ run.invocations <= run.budget + 1
    /\ Exhausting => (run.prompts = 3 /\ run.invocations = 4)

\* C9 as amended: every makeRequest call ends, after at most budget+1
\* invocations; with budget 3, retryable failures only, a user who always
\* confirms and the context's counter at 0 when the call starts, three
\* prompts are shown and the failure of the fourth invocation is raised.
C9_BoundedRetries ==
    /\ [](run.invocations <= run.budget + 1)
    /\ []((Exhausting /\ run.startCount = 0) =>
             (run.prompts = 3 /\ run.invocations = 4 /\ lastThrown.seq = 4))
    /\ (rpc = "calling" ~> rpc = "done")

\* a call with budget 3 on a fresh context ran out of retries
C9_Witness ==
    /\ Exhausting /\ run.startCount = 0
    /\ run.prompts = 3 /\ run.invocations = 4

\* C10: a failing makeRequest raises the very error of the last invocation,
\* a succeeding one returns that invocation's result, and no invocation
\* follows either.
C10_RaisesLastError ==
    /\ [](outcome.kind = "raised" =>
             /\ rpc = "done"
             /\ outcome.error = lastThrown
             /\ outcome.error.seq = run.invocations)
    /\ [](outcome.kind = "returned" =>
             rpc = "done" /\ outcome.value = run.invocations)
    /\ [][outcome.kind # "none" => run'.invocations <= run.invocations]_vars

\* the user declined after a plain error that the handler classifies
C10_Witness ==
    /\ rpc = "done" /\ outcome.kind = "raised"
    /\ ~outcome.error.app /\ outcome.error.ind = {"400"}
    /\ run.prompts = 1 /\ ~run.confirmedOnly /\ run.invocations = 1

\* C11: handleError shows the retry prompt exactly when the classified error
\* is retryable and the counter of the context was below 3 at the call; it
\* returns true exactly when the prompt was shown and the user confirmed,
\* and the counter is then one higher than it was at the call.
C11_PromptIffRetryableInBudget ==
    hlast.op = "handle" =>
        /\ hlast.prompted <=> (hlast.appError.isRetryable /\ hlast.before < 3)
        /\ hlast.shouldRetry <=> (hlast.prompted /\ hlast.answer \in {"y", "Yes"})
        /\ hlast.shouldRetry =>
               retryAttempts["agent"][hlast.context] = hlast.before + 1

C11_Witness ==
    /\ hlast.op = "handle"
    /\ hlast.before = 2
    /\ hlast.shouldRetry
    /\ retryAttempts["agent"][hlast.context] = 3
    /\ retryAttempts["agent"]["create-issue"] # retryAttempts["agent"]["create-issue-flow"]

\* C12: whenever handleError returns false because the user declined the
\* prompt, or because the budget of the context was used up (its counter
\* already 3 at the call), the counter of that context is cleared on return.
C12_ClearedOnDeclineOrExhaustion ==
    (/\ hlast.op = "handle"
     /\ ~hlast.shouldRetry
     /\ \/ hlast.prompted /\ hlast.answer \notin {"y", "Yes"}
        \/ hlast.appError.isRetryable /\ hlast.before = 3)
    => retryAttempts["agent"][hlast.context] = 0

\* C13: the retry state is one mapping for the whole process: once an
\* operation run by makeRequest under 'create-issue' has succeeded after
\* confirmed retries and the caller has called resetRetryCount('create-issue'),
\* the counter the runner's handler consults for that label is cleared.
C13_ResetClearsRunnerCounter ==
    (/\ rpc = "settled"
     /\ outcome.kind = "returned"
     /\ run.context = "create-issue"
     /\ run.prompts > 0
     /\ run.confirmedOnly)
    => retryAttempts["runner"]["create-issue"] = 0

\* C14: resetRetryCount(context) restores the full budget of the context
\* whatever its counter was (0..3): each of the next three retryable failures
\* handled on it shows the retry prompt, numbered 1/3, 2/3 and 3/3 as the
\* retries are confirmed; and the call leaves the counter of every other
\* context as it was.
ResetRestoresBudget ==
    (/\ hlast.op = "handle"
     /\ hlast.appError.isRetryable
     /\ htrack.active
     /\ htrack.context = hlast.context
     /\ htrack.n \in 1..3)
    => /\ hlast.prompted
       /\ ~htrack.declinedEarlier => hlast.label = htrack.n

ResetLeavesOtherContexts ==
    hlast'.op = "reset" =>
        /\ retryAttempts'["agent"][hlast'.context] = 0
        /\ \A c \in Contexts \ {hlast'.context} :
               retryAttempts'["agent"][c] = retryAttempts["agent"][c]

C14_ResetRestoresBudget ==
    []ResetRestoresBudget /\ [][ResetLeavesOtherContexts]_vars

C14_Witness ==
    /\ hlast.op = "handle"
    /\ htrack.active
    /\ htrack.context = hlast.context
    /\ htrack.from = 3
    /\ htrack.n = 3
    /\ hlast.label = 3
    /\ \E c \in HandlerContexts \ {hlast.context} : retryAttempts["agent"][c] > 0

\* C15: normalizeError gives a thrown error the kind of the first test its
\* message passes, in the order network, authentication, tracker status code
\* (400, 403, 404), generation service, and Unknown when it passes none: a
\* message with both 'timeout' and '401' is a network error.
C15_FirstMatchWins ==
    (clOut.done /\ ~clIn.app) =>
        LET kind == clOut.once.type
            has(i) == i \in clIn.ind
        IN  /\ has("timeout") => kind = "NETWORK_ERROR"
            /\ ~has("timeout") /\ has("401") => kind = "AUTHENTICATION_ERROR"
            /\ ~has("timeout") /\ ~has("401") /\ has("400") =>
                   kind = "JIRA_API_ERROR"
            /\ ~has("timeout") /\ ~has("401") /\ ~has("400") /\ has("openai") =>
                   kind = "OPENAI_ERROR"
            /\ clIn.ind = {} => kind = "UNKNOWN_ERROR"

C15_Witness ==
    /\ clOut.done
    /\ clIn = PlainError({"timeout", "401"}, 0)
    /\ clOut.once.type = "NETWORK_ERROR"

\* C17: normalizeError is idempotent: an AppError comes back as it went in,
\* kind, message, flag and status code, so classifying the classified error
\* again changes nothing.
C17_ClassifyIdempotent ==
    clOut.done =>
        /\ clIn.app => clOut.once = clIn
        /\ clOut.twice = clOut.once

C17_Witness ==
    /\ clOut.done
    /\ clIn.app
    /\ clIn.type = "VALIDATION_ERROR"
    /\ clIn.isRetryable
    /\ clIn.ind = {"timeout", "401"}
    /\ clIn.statusCode = 404
    /\ clOut.twice = clIn

\* C16 as stated: the kind decides isRetryable, Network and Authentication
\* being unretryable and RemoteAPI, GenerationService and Unknown retryable,
\* so handleError never shows the retry prompt for a Network or an
\* Authentication failure.
C16_Original ==
    hlast.op = "handle" =>
        LET kind == hlast.appError.type
        IN  /\ kind \in {"NETWORK_ERROR", "AUTHENTICATION_ERROR"} =>
                   ~hlast.appError.isRetryable /\ ~hlast.prompted
            /\ kind \in {"JIRA_API_ERROR", "OPENAI_ERROR", "UNKNOWN_ERROR"} =>
                   hlast.appError.isRetryable

\* C16: the kind decides isRetryable, Authentication being the unretryable one
\* and Network, RemoteAPI, GenerationService and Unknown retryable, so
\* handleError never shows the retry prompt for an Authentication failure and
\* shows it for a Network failure while the counter is below 3.
C16_RetryableByKind ==
    hlast.op = "handle" =>
        LET kind == hlast.appError.type
        IN  /\ kind = "AUTHENTICATION_ERROR" =>
                   ~hlast.appError.isRetryable /\ ~hlast.prompted
            /\ kind \in {"NETWORK_ERROR", "JIRA_API_ERROR", "OPENAI_ERROR",
                          "UNKNOWN_ERROR"} => hlast.appError.isRetryable
            /\ kind = "NETWORK_ERROR" /\ hlast.before < 3 => hlast.prompted

C16_Witness ==
    /\ hlast.op = "handle"
    /\ hlast.error = PlainError({"timeout", "401"}, 0)
    /\ hlast.appError.type = "NETWORK_ERROR"
    /\ hlast.before = 2
    /\ hlast.prompted

\* C18: for a non-empty list of significant matches the recommendations hold
\* the high-similarity block exactly when some match is above 0.8 and the
\* related-issues block exactly when some match is above 0.6 and at most 0.8
\* (0.8 itself is medium), the high block before the related one, and they
\* end with the review prompt; for an empty list they are the one
\* affirmative line.
C18_RecommendationBands ==
    recOut.done =>
        LET recs == recOut.recommendations
            at(line) == {i \in 1..Len(recs) : recs[i] = line}
            high == at("High similarity detected! Consider these actions:")
            related == at("Related issues found. Consider:")
            sim(j) == recIn[j].similarity.v
        IN  IF Len(recIn) = 0
            THEN recs = <<"No similar issues found. Safe to proceed.">>
            ELSE /\ high # {} <=> \E j \in 1..Len(recIn) : sim(j) > 80
                 /\ related # {} <=>
                        \E j \in 1..Len(recIn) : sim(j) > 60 /\ sim(j) <= 80
                 /\ \A i \in high, k \in related : i < k
                 /\ Len(recs) = 4 * (Cardinality(high) + Cardinality(related)) + 1
                 /\ recs[Len(recs)] =
                        "Review the similar issues below before proceeding."

C18_Witness ==
    /\ recOut.done
    /\ \E j \in 1..Len(recIn) : recIn[j].similarity.v = 80
    /\ \A j \in 1..Len(recIn) : recIn[j].similarity.v <= 80
    /\ Len(recOut.recommendations) = 5

\* C20: for n > 0 candidates the scorer makes ceil(n/5) generation calls, one
\* for each batch of at most 5 consecutive candidates and one after another,
\* the results of a batch recorded before the next call starts; and it makes
\* ceil(n/5) - 1 delays, each between two batches, none before the first
\* call and none after the last.
C20_BatchesAndDelays ==
    (scorer.invoked /\ ~caught /\ pc \in {"scoring", "delay", "returned"}) =>
        LET n == Len(searchResults)
            calls == scorer.calls
            delays == scorer.delays
        IN  /\ calls = Len(replies)
            /\ Len(results) = Min2(5 * calls, n)
            /\ \A j \in 1..Len(results) : results[j].key = searchResults[j].key
            /\ pc = "scoring" => delays = calls /\ batchStart = 5 * calls
                                 /\ 5 * calls < n
            /\ pc = "delay" => delays = calls - 1 /\ 5 * calls < n
            /\ pc = "returned" => /\ n > 0
                                  /\ calls = (n + 4) \div 5
                                  /\ delays = calls - 1

C20_Witness ==
    /\ Scored
    /\ Len(searchResults) = 7
    /\ scorer.calls = 2
    /\ scorer.delays = 1
    /\ Len(results) = 7

\* C19: every operation of the issue-creation flow includes retry on
\* failure: when the gateway call behind fetch-projects or create-issue
\* fails, by an error response or a network error, the runner's retry prompt
\* is offered.
C19_FailureOffersRetry ==
    (\E k \in 1..Len(flow.gateway) : flow.gateway[k].kind \in {"notok", "neterr"})
    => flow.prompts > 0

\* C21: within one search the simplified free-text query is issued exactly
\* when the primary structured query failed (error status, thrown error or
\* unreadable body), once and after the primary one, so the gateway receives
\* at most two requests; when the primary query succeeds its issues, possibly
\* none, are returned and no second request is made.
C21_FallbackIffPrimaryFailed ==
    seOut.done =>
        LET sent == seOut.requests
            failed == seIn.primary.kind \in {"neterr", "notok", "badbody", "nullbody"}
        IN  /\ Len(sent) \in {1, 2}
            /\ sent[1].dialect = "jql"
            /\ Len(sent) = 2 <=> failed
            /\ Len(sent) = 2 => sent[2].dialect = "query"
            /\ ~failed => seOut.value = seIn.primary.issues

C21_Witness ==
    /\ seOut.done
    /\ seIn.primary.kind = "notok"
    /\ seIn.fallback.kind = "issues"
    /\ Len(seOut.requests) = 2
    /\ seOut.requests[2].dialect = "query"
    /\ Len(seOut.value) = MaxFound

\* C22: the attempt counter of every context of a handler is between 0 and 3,
\* after any sequence of handleError calls, with any errors and any answers,
\* and resetRetryCount calls.
C22_CounterInRange ==
    \A c \in Contexts : retryAttempts["agent"][c] \in 0..3

C22_Witness ==
    /\ hlast.op = "handle"
    /\ hlast.before = 3
    /\ hlast.appError.isRetryable
    /\ retryAttempts["agent"][hlast.context] = 3
    /\ \E c \in HandlerContexts : retryAttempts["agent"][c] = 0

\* C23: the delay slept before the k-th confirmed retry on a context, counted
\* since its counter was last cleared, is min(1000 * 2^(k-1), 5000) ms: one
\* second, then two, then four, never more than five.
C23_DelayDoubles ==
    (hlast.op = "handle" /\ hlast.shouldRetry) =>
        LET k == retryAttempts["agent"][hlast.context]
        IN  /\ k \in 1..3
            /\ k = 1 => hlast.delay = 1000
            /\ k = 2 => hlast.delay = 2000
            /\ k = 3 => hlast.delay = 4000
            /\ hlast.delay <= 5000

C23_Witness ==
    /\ hlast.op = "handle"
    /\ hlast.shouldRetry
    /\ hlast.before = 2
    /\ hlast.delay = 4000

\* the tokens of the lower-cased title and description, in order
Tokens(issue) ==
    [k \in 1..(Len(issue.title) + Len(issue.description)) |->
        LET w == IF k <= Len(issue.title) THEN issue.title[k]
                 ELSE issue.description[k - Len(issue.title)]
        IN  [len |-> w.len, cls |-> w.cls, upper |-> FALSE]]

FirstFive(s) == IF Len(s) <= 5 THEN s ELSE SubSeq(s, 1, 5)

LongNoNumberNoPunctuation(w) == w.len > 3 /\ w.cls = "alpha"

LongNoNumber(w) == w.len > 3 /\ w.cls \in {"alpha", "punct"}

KeywordServiceFailed == seIn.kwReply.kind \in {"throw", "unparsable"}

\* C24 as stated: when the generation call for the keywords fails or its
\* output is unparsable, the keywords are the first five tokens of the
\* lower-cased title and description that are longer than 3 characters and
\* neither punctuation only nor a number, and the token "issue" when there is
\* none.
C24_Original ==
    (seOut.done /\ KeywordServiceFailed) =>
        LET kept == SelectSeq(Tokens(seIn.issue), LongNoNumberNoPunctuation)
        IN  seOut.keywords = IF kept = <<>> THEN <<[len |-> 5, cls |-> "alpha",
                                                    upper |-> FALSE]>>
                             ELSE FirstFive(kept)

\* C24: when the generation call for the keywords fails or its output is
\* unparsable, the keywords are the first five tokens of the lower-cased
\* title and description that are longer than 3 characters and not a number
\* (punctuation is not looked at), and the token "issue" when there is none.
C24_KeywordFallback ==
    (seOut.done /\ KeywordServiceFailed) =>
        LET kept == SelectSeq(Tokens(seIn.issue), LongNoNumber)
        IN  seOut.keywords = IF kept = <<>> THEN <<[len |-> 5, cls |-> "alpha",
                                                    upper |-> FALSE]>>
                             ELSE FirstFive(kept)

C24_Witness ==
    /\ seOut.done
    /\ seIn.kwReply.kind = "throw"
    /\ Len(seIn.issue.title) = 4
    /\ seIn.issue.title[3].cls = "punct"
    /\ seOut.keywords = <<Word(4, "punct"), Word(6, "alpha"), Word(7, "alpha")>>

\* C25: the presentation step returns true without asking when the verdict
\* has no potential duplicates; otherwise it asks, and 'proceed anyway' gives
\* true, 'cancel' and 'modify the issue' give false, 'review in detail' gives
\* the answer to the follow-up confirmation, and any other selection false.
C25_ProceedSignal ==
    flow.presentation.done =>
        LET p == flow.presentation
        IN  IF ~flow.duplicateAnalysis.hasPotentialDuplicates
            THEN p.proceed /\ ~p.asked
            ELSE /\ p.asked
                 /\ p.choice = 0 => p.proceed
                 /\ p.choice = 1 => (p.proceed <=> p.answer \in {"y", "Yes"})
                 /\ p.choice = 2 => ~p.proceed
                 /\ p.choice = 3 => ~p.proceed
                 /\ p.choice \notin 0..3 => ~p.proceed
                 /\ p.reviewed <=> p.choice = 1

C25_Witness ==
    /\ flow.presentation.done
    /\ flow.duplicateAnalysis.hasPotentialDuplicates
    /\ flow.presentation.choice = 1
    /\ flow.presentation.answer = "Yes"
    /\ flow.presentation.proceed
    /\ fpc = "confirm"

\* C26: a candidate scored with the degraded fallback 0.1 never appears in
\* similarIssues; when every scoring call of a run failed the run returns
\* hasPotentialDuplicates = false and the one recommendation 'No similar
\* issues found. Safe to proceed.', the verdict of a run in which the service
\* scored every candidate at or below 0.6.
C26_DegradedNeverSignificant ==
    Scored =>
        LET nothingFound ==
                [hasPotentialDuplicates |-> FALSE, similarIssues |-> <<>>,
                 recommendations |-> <<"No similar issues found. Safe to proceed.">>]
            failed(b) == replies[b].kind \in {"throw", "empty", "unparsable", "nonlist"}
            verified(b) ==
                /\ replies[b].kind = "list"
                /\ \A k \in 1..Len(replies[b].entries) :
                       replies[b].entries[k].similarity.v <= 60
        IN  /\ \A k \in 1..Len(analysis.similarIssues) :
                   /\ analysis.similarIssues[k].similarity # Num(10)
                   /\ analysis.similarIssues[k].reason
                          \notin {"Unable to perform detailed analysis", "Analysis failed"}
            /\ (\A b \in 1..Len(replies) : failed(b)) => analysis = nothingFound
            /\ (\A b \in 1..Len(replies) : verified(b)) => analysis = nothingFound

C26_Witness ==
    /\ Scored
    /\ Len(searchResults) = 7
    /\ Len(replies) = 2
    /\ replies[1].kind = "throw"
    /\ replies[2].kind = "unparsable"
    /\ \A j \in 1..7 : analysisResults[j].similarity = Num(10)
    /\ ~analysis.hasPotentialDuplicates
    /\ analysis.recommendations = <<"No similar issues found. Safe to proceed.">>

\* C27: in a run of the issue-creation flow the create-issue request goes to
\* the gateway only after checkForDuplicates has returned, the presentation
\* step has then returned true and the user has then confirmed the summary;
\* when the presentation step returned false or the user did not confirm, no
\* create-issue request is sent in that run.
C27_CreateOnlyAfterConfirmation ==
    LET log == flow.log
        at(event) == {k \in 1..Len(log) : log[k] = event}
        yes == flow.confirmation.done /\ flow.confirmation.answer \in {"y", "Yes"}
    IN  /\ \A k \in at("create-issue request") :
               /\ \E a \in at("checked"), b \in at("proceed"), c \in at("confirmed") :
                      a < b /\ b < c /\ c < k
               /\ flow.presentation.done /\ flow.presentation.proceed
               /\ yes
        /\ (flow.presentation.done /\ ~flow.presentation.proceed) =>
               at("create-issue request") = {}
        /\ (flow.confirmation.done /\ ~yes) => at("create-issue request") = {}

C27_Witness ==
    /\ fpc = "done"
    /\ flow.ended = "created"
    /\ flow.duplicateAnalysis.hasPotentialDuplicates
    /\ flow.presentation.choice = 1
    /\ flow.log = <<"projects request", "checked", "proceed", "confirmed",
                    "create-issue request">>

\* C28: makeRequest does not clear its handler's counter on success, so the
\* confirmed retries of a label accumulate across makeRequest calls: a call
\* that succeeds after k confirmed retries leaves the counter k above what it
\* found, and a call that finds the counter at k is offered at most 3 - k
\* prompts before the failure propagates.
C28_RetriesAccumulateAcrossCalls ==
    LET counter == retryAttempts["runner"][run.context]
    IN  /\ (rpc = "done" /\ outcome.kind = "returned") =>
               (run.confirmedOnly /\ counter = run.startCount + run.prompts)
        /\ rpc # "idle" => run.prompts <= maxRetries - run.startCount
        /\ (rpc = "done" /\ outcome.kind = "raised" /\ run.startCount = maxRetries) =>
               run.prompts = 0

C28_Witness ==
    /\ rpc = "done" /\ outcome.kind = "returned"
    /\ run.startCount = 1
    /\ run.prompts = 2
    /\ retryAttempts["runner"][run.context] = 3

\* C29: when checkForDuplicates catches an internal failure, the verdict it
\* returns is the same whatever the user answers to the retry prompt, and
\* neither the search nor the scoring is executed again in that call, a
\* confirmed retry included: the catch handler leaves the requests and the
\* scoring calls as they were and the call returns the safe fallback verdict.
C29_RetryAnswerIrrelevant ==
    [][/\ pc = "catch" =>
            /\ pc' = "returned"
            /\ analysis' = SafeFallbackVerdict
            /\ requests' = requests
            /\ scorer' = scorer
            /\ replies' = replies
       /\ caught => (pc' = "idle" /\ requests' = <<>> /\ scorer' = NoScorer)]_vars

\* a caught failure whose retry prompt was answered yes: the counter of the
\* context stands at 1 when the call returns
C29_Witness ==
    /\ pc = "returned" /\ caught
    /\ retryAttempts["duplicate-detection service"]["duplicate-detection"] = 1
    /\ analysis = SafeFallbackVerdict
    /\ scorer.calls = 1 /\ Len(replies) = 1

\* C30: the keyword list used for the primary query is never empty and never
\* longer than five, whatever the generation service replies: a valid array,
\* an empty array, JSON that is no array, text that does not parse, empty
\* content or a failure.
C30_KeywordsOneToFive ==
    seOut.done => Len(seOut.keywords) \in 1..5

====
